---- MODULE Spec2Model ----
(***************************************************************************)
(* yubikey-agent: the Agent runtime (session lifecycle, protocol handlers, *)
(* hang-up handling).  The sources hold two revisions of the agent:        *)
(*   variant "slots"  : src/go.mod  (slot catalog, -serial selector)       *)
(*   variant "single" : src/main.go (slot 9a only, opportunistic release)  *)
(* Both are modelled; Init chooses the revision and its configuration.     *)
(***************************************************************************)
EXTENDS Integers, Sequences, FiniteSets, TLC

\* ---------------------------------------------------------------- bounds
NumHandles == 3            \* names for the sessions that exist at one time

\* ------------------------------------------------------------- processes
Clients == {"c1", "c2"}    \* goroutines of serveConn
Signing == {"c1"}          \* the connections that send sign requests
Hup == "hup"               \* the goroutine of the SIGHUP handler
Procs == Clients \cup {Hup}
NoProc == "none"

\* ------------------------------------------------------------ the tokens
Tokens == {"t1", "t2"}
NoToken == "none"
CardOrder == <<"t1", "t2">>          \* enumeration order of piv.Cards()
TokenSerial(t) == IF t = "t1" THEN 1 ELSE 2
TokenMajor(t) == IF t = "t1" THEN 5 ELSE 4
TokStates(t) == IF t = "t1" THEN {"absent", "ready", "busy"}
                ELSE {"absent", "ready", "mute"}

Slots == {"9a", "9c", "9d", "9e"}
SlotAuthentication == "9a"

\* what the certificate of a slot holds: "none" (no certificate), "rsa",
\* "ecdsa", "other" (a key type that is neither), "ecbad" (an ECDSA key on a
\* curve ssh.NewPublicKey rejects)
Cert(t, s) ==
    CASE t = "t1" /\ s = "9a" -> "rsa"
      [] t = "t1" /\ s = "9c" -> "other"
      [] t = "t1" /\ s = "9d" -> "ecdsa"
      [] t = "t2" /\ s = "9c" -> "rsa"
      [] t = "t2" /\ s = "9d" -> "ecbad"
      [] OTHER -> "none"
\* whether the token can attest the key of the slot (generated on the token)
Attestable(t, s) == t = "t1" /\ s = "9a"

KeyAlgoRSA == "ssh-rsa"
KeyAlgoECDSA256 == "ecdsa-sha2-nistp256"
SigAlgoRSASHA2256 == "rsa-sha2-256"
SigAlgoRSASHA2512 == "rsa-sha2-512"
SignatureFlagRsaSha256 == 2
SignatureFlagRsaSha512 == 4
FlagValues == {0, 2, 4, 6}             \* every setting of the two flag bits

\* an ssh.PublicKey: its type, the key material, and its encoding
NoKey == [type |-> "none", id |-> "none", enc |-> "none"]
PubKeyOf(t, s) ==
    [type |-> IF Cert(t, s) = "rsa" THEN KeyAlgoRSA ELSE KeyAlgoECDSA256,
     id |-> <<t, s>>, enc |-> "plain"]
\* ssh.PublicKey.Marshal: the wire encoding, compared byte for byte
Marshal(k) == <<k.type, k.enc, k.id>>
\* the keys a client asks signatures for: the two keys of t1, and the RSA key
\* of t1 in another encoding (same key material, different bytes)
RequestKeys ==
    {PubKeyOf("t1", "9a"), PubKeyOf("t1", "9d"),
     [PubKeyOf("t1", "9a") EXCEPT !.enc = "alt"]}
\* the sign requests: every flag value for the keys a signer can hold
SignRequests ==
    {<<k, f>> \in RequestKeys \X FlagValues : k.enc = "plain" \/ f = 0}

NoHandle == 0
\* the timers in use: the one a.touchNotification names ("cur") and the one
\* it named before ("old"), still referred to by a goroutine's select
TimerNames == {"cur", "old"}
NoTimer == "nil"
Handles == 1..NumHandles

VARIABLES
    variant,            \* "slots" (src/go.mod) or "single" (src/main.go)
    darwin,             \* runtime.GOOS == "darwin"
    slotConfiguration,  \* slot -> PIN policy, the configured slots only
    cardSerial,         \* the -serial flag (0: first token that answers)
    mu,                 \* Agent.mu: the process holding it, or NoProc
    yk,                 \* Agent.yk: a handle, or NoHandle (nil)
    serial,             \* Agent.serial
    hState,             \* handle -> "free" | "open" | "lost" | "closed"
    hToken,             \* handle -> token of the session
    hq,                 \* handle -> where its serial query stands among the
                        \* commands sent on it: "none", "new", "memo",
                        \* "unqueried", "late"
    tok,                \* token -> state of the physical token
    pc,                 \* process -> position
    op,                 \* process -> operation in progress
    key, flags,         \* process -> arguments of Sign / SignWithFlags
    todo,               \* process -> slots the loop has not visited
    got,                \* process -> slots that produced a key / a signer
    errs,               \* process -> {<<slot, cause>>}: signerErrors
    res,                \* process -> result of the operation
    conn,               \* process -> the line ensureYK or Close just logged
    armed,              \* process -> the touch notification was armed
    alg,                \* process -> algorithm passed to the hardware signer
    sess,               \* process -> the handle its signers were built on
    touchNotification,  \* a.touchNotification: the timer armed last
    tState,             \* timer -> "free", "running", "stopped", "fired"
    wd,                 \* the watchdog goroutines alive: {[pc, tm, live]}
    prompt,             \* the PIN prompt of the signature in progress:
                        \* "none", "open", "openReset", "done", "wrong"
    sighup,             \* a SIGHUP was delivered to the process and no Close
                        \* call has begun since
    pinRetries,         \* the token: PIN tries granted after a right PIN
    retries,            \* the token: PIN tries remaining
    keychain,           \* the PIN stored in the keychain for the serial:
                        \* "none", "right", "wrong"
    attempt             \* the PIN getPIN returned to the pending signature

vars == <<variant, darwin, slotConfiguration, cardSerial, mu, yk, serial,
          hState, hToken, hq, tok, pc, op, key, flags, todo, got, errs, res,
          conn, armed, alg, sess, touchNotification, tState, wd, prompt,
          sighup, pinRetries, retries, keychain, attempt>>
pinVars == <<pinRetries, retries, keychain, attempt>>
wdVars == <<touchNotification, tState, wd, prompt>>
cfgVars == <<variant, darwin, slotConfiguration, cardSerial>>
hwVars == <<hState, hToken, hq>>
callVars == <<op, key, flags, todo, got, errs, res, conn, armed, alg, sess>>

\* ---------------------------------------------------------- configuration
PINPolicies == {"unset", "never", "once", "always"}
\* var slotConfiguration = slotConfig{piv.SlotAuthentication: -1}
DefaultSlots == [s \in {SlotAuthentication} |-> "unset"]
\* -slot Signature -slot KeyManagement,once
ThreeSlots == [s \in {"9a", "9c", "9d"} |->
                 IF s = "9d" THEN "once" ELSE "unset"]
ConfiguredSlots == DOMAIN slotConfiguration

NoResult == [kind |-> "none", why |-> "none"]
\* no PIN has been asked for
NoAttempt == [pin |-> "none", by |-> "none"]
Result(k, w) == [kind |-> k, why |-> w]

\* the builds and command lines: src/go.mod with -slot flags and no -serial,
\* src/go.mod with -serial 2, src/main.go off and on macOS
Configs ==
    {[variant |-> "slots", darwin |-> FALSE, slots |-> ThreeSlots, serial |-> 0],
     [variant |-> "slots", darwin |-> FALSE, slots |-> DefaultSlots,
      serial |-> TokenSerial("t2")],
     [variant |-> "single", darwin |-> FALSE, slots |-> DefaultSlots,
      serial |-> 0],
     [variant |-> "single", darwin |-> TRUE, slots |-> DefaultSlots,
      serial |-> 0]}

Init ==
    /\ \E c \in Configs :
         /\ variant = c.variant
         /\ darwin = c.darwin
         /\ slotConfiguration = c.slots
         /\ cardSerial = c.serial
         /\ serial = c.serial         \* a := &Agent{serial: cardSerial}
    /\ mu = NoProc
    /\ yk = NoHandle
    /\ hState = [h \in Handles |-> "free"]
    /\ hToken = [h \in Handles |-> NoToken]
    /\ hq = [h \in Handles |-> "none"]
    /\ tok = [t \in Tokens |-> "absent"]
    /\ pc = [p \in Procs |-> IF p = Hup THEN "recv" ELSE "idle"]
    /\ op = [p \in Procs |-> "none"]
    /\ key = [p \in Procs |-> NoKey]
    /\ flags = [p \in Procs |-> 0]
    /\ todo = [p \in Procs |-> {}]
    /\ got = [p \in Procs |-> {}]
    /\ errs = [p \in Procs |-> {}]
    /\ res = [p \in Procs |-> NoResult]
    /\ conn = [p \in Procs |-> "none"]
    /\ armed = [p \in Procs |-> FALSE]
    /\ alg = [p \in Procs |-> "none"]
    /\ sess = [p \in Procs |-> NoHandle]
    /\ touchNotification = NoTimer
    /\ tState = [t \in TimerNames |-> "free"]
    /\ wd = {}
    /\ prompt = "none"
    /\ sighup = FALSE
    /\ pinRetries = 3
    /\ retries = 3
    /\ keychain = "none"
    /\ attempt = NoAttempt

\* ------------------------------------------------------------ the -slot flag
\* The value of a -slot flag after strings.Split(value, ","): a sequence of
\* at least one field.
SlotFlags ==
    {<<"Authentication">>, <<"signature", "ONCE">>,
     <<"KeyManagement", "never">>, <<"Authentication", "always", "x">>,
     <<"bogus">>, <<"CardAuthentication", "sometimes">>,
     <<"authentication", "">>, <<"bogus", "sometimes">>}

\* strings.ToLower on the words of the flags
ToLower(w) ==
    CASE w = "Authentication" -> "authentication"
      [] w = "KeyManagement" -> "keymanagement"
      [] w = "CardAuthentication" -> "cardauthentication"
      [] w = "ONCE" -> "once"
      [] OTHER -> w

\* the policy of a flag value: none given, one of the three names, or an
\* unknown name
pinPolicyLenient(slot) ==
    IF Len(slot) > 1 /\ ToLower(slot[2]) \in {"once", "never", "always"}
    THEN ToLower(slot[2])
    ELSE "unset"
pinPolicy(slot) ==
    IF Len(slot) > 1
    THEN IF ToLower(slot[2]) \in {"once", "never", "always"}
         THEN ToLower(slot[2])
         ELSE "unknown"
    ELSE "unset"

\* the slot of a flag value
pivSlot(slot) ==
    CASE ToLower(slot[1]) = "authentication" -> "9a"
      [] ToLower(slot[1]) = "signature" -> "9c"
      [] ToLower(slot[1]) = "keymanagement" -> "9d"
      [] ToLower(slot[1]) = "cardauthentication" -> "9e"
      [] OTHER -> "unknown"

\* slotConfig.Set on the catalog cat: the error it returns and the catalog
\* it leaves
SetCatalog(cat, slot) ==
    IF pinPolicy(slot) = "unknown"
    THEN [err |-> "policy", cat |-> cat]
    ELSE IF pivSlot(slot) = "unknown"
    THEN [err |-> "slot", cat |-> cat]
    ELSE [err |-> "none",
          cat |-> [s \in DOMAIN cat \cup {pivSlot(slot)} |->
                     IF s = pivSlot(slot) THEN pinPolicy(slot) ELSE cat[s]]]

\* flag.Parse hands one -slot value to Set; an error ends the process with
\* the usage message (flag.CommandLine is ExitOnError)
Set(slot) ==
    /\ pc[Hup] = "flags"
    /\ LET r == SetCatalog(slotConfiguration, slot) IN
         /\ slotConfiguration' = r.cat
         /\ IF r.err = "none"
            THEN UNCHANGED <<pc, res>>
            ELSE /\ pc' = [p \in Procs |-> "exit"]
                 /\ res' = [res EXCEPT ![Hup] = Result("flagerr", r.err)]
    /\ UNCHANGED <<variant, darwin, cardSerial, sighup, pinVars, wdVars,
                   mu, yk, serial, hwVars,
                   tok, op, key, flags, todo, got, errs, conn, armed, alg,
                   sess>>

\* the flags are parsed: runAgent starts the hang-up handler and accepts
\* connections
runAgent ==
    /\ pc[Hup] = "flags"
    /\ pc' = [p \in Procs |-> IF p = Hup THEN "recv" ELSE "idle"]
    /\ UNCHANGED <<cfgVars, sighup, pinVars, wdVars, mu, yk, serial, hwVars, tok, callVars>>

\* the process of src/go.mod before flag.Parse: the catalog holds the
\* Authentication slot only and no goroutine of the agent runs
InitFlags ==
    /\ variant = "slots"
    /\ darwin = FALSE
    /\ slotConfiguration = DefaultSlots
    /\ cardSerial = 0
    /\ serial = 0
    /\ mu = NoProc
    /\ yk = NoHandle
    /\ hState = [h \in Handles |-> "free"]
    /\ hToken = [h \in Handles |-> NoToken]
    /\ hq = [h \in Handles |-> "none"]
    /\ tok = [t \in Tokens |-> "absent"]
    /\ pc = [p \in Procs |-> "flags"]
    /\ op = [p \in Procs |-> "none"]
    /\ key = [p \in Procs |-> NoKey]
    /\ flags = [p \in Procs |-> 0]
    /\ todo = [p \in Procs |-> {}]
    /\ got = [p \in Procs |-> {}]
    /\ errs = [p \in Procs |-> {}]
    /\ res = [p \in Procs |-> NoResult]
    /\ conn = [p \in Procs |-> "none"]
    /\ armed = [p \in Procs |-> FALSE]
    /\ alg = [p \in Procs |-> "none"]
    /\ sess = [p \in Procs |-> NoHandle]
    /\ touchNotification = NoTimer
    /\ tState = [t \in TimerNames |-> "free"]
    /\ wd = {}
    /\ prompt = "none"
    /\ sighup = FALSE
    /\ pinRetries = 3
    /\ retries = 3
    /\ keychain = "none"
    /\ attempt = NoAttempt

\* --------------------------------------------- the PIN prompt with keychain
\* the PIN retry counters tokens are set up with
PINRetries == {3, 5}
\* the PIN typed or stored
PINs == {"right", "wrong"}
\* the buttons of the dialog
Buttons == {"Cancel", "OK", "OK and save to keychain"}
\* getPIN returned an error: the signature fails and no PIN is verified
NoPIN == [pin |-> "none", by |-> "error"]

\* a prompt that submits the stored PIN while a try is left
keychainWhileTries(r) == r >= 1
\* if retries >= 3: the keychain is read
readsKeychain(r) == r >= 3

\* getPIN(serial, retries) of the keychain prompt: r is the number of tries
\* it is given, getOK and setOK tell whether the keychain could be read and
\* written, button and typed are what the user does with the dialog
getPIN(r, getOK, button, typed, setOK) ==
    IF readsKeychain(r) /\ keychain # "none" /\ ~getOK
    THEN [a |-> NoPIN, k |-> keychain]
    ELSE IF readsKeychain(r) /\ keychain # "none"
    THEN [a |-> [pin |-> keychain, by |-> "keychain"], k |-> keychain]
    ELSE IF button = "Cancel"
    THEN [a |-> NoPIN, k |-> keychain]
    ELSE IF button = "OK and save to keychain"
    THEN IF setOK
         THEN [a |-> [pin |-> typed, by |-> "user"], k |-> typed]
         ELSE [a |-> NoPIN, k |-> keychain]
    ELSE [a |-> [pin |-> typed, by |-> "user"], k |-> keychain]

\* Agent.getPIN, called when a signature needs the PIN: r, _ :=
\* a.yk.Retries() is 0 when the query fails
AgentGetPIN ==
    /\ attempt = NoAttempt
    /\ \E retriesOK, getOK, setOK \in BOOLEAN, button \in Buttons,
          typed \in PINs :
         LET r == IF retriesOK THEN retries ELSE 0
             g == getPIN(r, getOK, button, typed, setOK)
         IN /\ attempt' = g.a
            /\ keychain' = g.k
    /\ UNCHANGED <<cfgVars, sighup, pinRetries, retries, wdVars, mu, yk, serial,
                   hwVars, tok, pc, callVars>>

\* The token verifies the PIN it is sent and the signature returns: a right
\* PIN restores the tries, a wrong one takes one away, and with no try left
\* the PIN is locked. After an error of getPIN no PIN is sent.
VerifyPIN ==
    /\ attempt # NoAttempt
    /\ retries' = IF attempt.pin = "none" \/ retries = 0 THEN retries
                  ELSE IF attempt.pin = "right" THEN pinRetries
                  ELSE retries - 1
    /\ attempt' = NoAttempt
    /\ UNCHANGED <<cfgVars, sighup, pinRetries, keychain, wdVars, mu, yk,
                   serial, hwVars, tok, pc, callVars>>

\* the agent of src/main.go on macOS with a session on a token, for every
\* retry counter and every content of the keychain
InitPin ==
    /\ variant = "single"
    /\ darwin = TRUE
    /\ slotConfiguration = DefaultSlots
    /\ cardSerial = 0
    /\ serial = 0
    /\ mu = NoProc
    /\ yk = NoHandle
    /\ hState = [h \in Handles |-> "free"]
    /\ hToken = [h \in Handles |-> NoToken]
    /\ hq = [h \in Handles |-> "none"]
    /\ tok = [t \in Tokens |-> "absent"]
    /\ pc = [p \in Procs |-> IF p = Hup THEN "recv" ELSE "idle"]
    /\ op = [p \in Procs |-> "none"]
    /\ key = [p \in Procs |-> NoKey]
    /\ flags = [p \in Procs |-> 0]
    /\ todo = [p \in Procs |-> {}]
    /\ got = [p \in Procs |-> {}]
    /\ errs = [p \in Procs |-> {}]
    /\ res = [p \in Procs |-> NoResult]
    /\ conn = [p \in Procs |-> "none"]
    /\ armed = [p \in Procs |-> FALSE]
    /\ alg = [p \in Procs |-> "none"]
    /\ sess = [p \in Procs |-> NoHandle]
    /\ touchNotification = NoTimer
    /\ tState = [t \in TimerNames |-> "free"]
    /\ wd = {}
    /\ prompt = "none"
    /\ sighup = FALSE
    /\ pinRetries \in PINRetries
    /\ retries \in 0..pinRetries
    /\ keychain \in {"none"} \cup PINs
    /\ attempt = NoAttempt

\* ------------------------------------------------------------- the device
\* piv.Open(card) succeeds: the token is attached and no other application
\* holds it
CanOpen(t) == tok[t] \in {"ready", "mute"}
\* piv.Cards(): the attached tokens, in enumeration order
Cards == SelectSeq(CardOrder, LAMBDA t : tok[t] # "absent")

\* A handle names a *piv.YubiKey: "open" while its transaction is held,
\* "lost" once the token went away under it, "closed" after yk.Close() for as
\* long as the agent still refers to it, and "free" otherwise (never made, or
\* closed and unreferenced).
\* yk.Close(): the transaction is released whatever Close returns
CloseHandle(hs, h) == IF h = NoHandle THEN hs ELSE [hs EXCEPT ![h] = "closed"]
\* the closed handles other than ref are garbage
Forget(hs, ref) ==
    [h \in Handles |-> IF hs[h] = "closed" /\ h # ref THEN "free" ELSE hs[h]]
ForgetToken(hs, ht) ==
    [h \in Handles |-> IF hs[h] = "free" THEN NoToken ELSE ht[h]]
\* the handle piv.Open returns next
NewHandle(hs) ==
    CHOOSE h \in Handles : hs[h] = "free" /\ \A g \in Handles :
                                               hs[g] = "free" => h <= g

\* a probe that always answers
healthyAlways(h) == TRUE
\* healthy: yk.AttestationCertificate() answers
healthy(h) == hState[h] = "open"

\* The commands sent to the token on a handle are followed as far as the
\* serial query goes: "new" (opened, nothing sent), "memo" (the serial was
\* queried first and not since), "unqueried" (other commands were sent, no
\* serial query), "late" (a serial query after another command, or a second
\* one); "none" for a handle that is free.
Log1(q, c) ==
    IF c = "serial" THEN (IF q = "new" THEN "memo" ELSE "late")
    ELSE IF q = "new" THEN "unqueried" ELSE q
RECURSIVE Log(_, _)
Log(q, cmds) == IF cmds = <<>> THEN q ELSE Log(Log1(q, Head(cmds)), Tail(cmds))
\* the logs of the handles hs, those of free handles dropped
Logs(hs, qs) == [h \in Handles |-> IF hs[h] = "free" THEN "none" ELSE qs[h]]
\* the commands sent on handle h added to its log
Sent(qs, h, cmds) ==
    [g \in Handles |-> IF g = h THEN Log(qs[g], cmds) ELSE qs[g]]

\* healthy: yk.AttestationCertificate()
healthyCommands == <<"attest">>
\* connectToYK on the handle it returns: yk.Serial()
connectCommands == <<"serial">>
\* getPublicKey: yk.Certificate(slot)
getPublicKeyCommands == <<"cert">>
\* yk.PrivateKey: with no policy given the key is attested
PrivateKeyCommands(policy) == IF policy = "unset" THEN <<"attest">> ELSE <<>>
\* a getPIN that asks the token for its serial
getPINCommandsSerial == <<"serial", "retries">>
\* getPIN: a.yk.Retries(), the serial taken from a.serial
getPINCommands == <<"retries">>
\* SignWithAlgorithm
signCommands == <<"sign">>

\* The state a discovery works on: the handle table, the cached serial, the
\* handle found (yk) and the error.
Scan(hs, ht, ser) ==
    [hs |-> hs, ht |-> ht, serial |-> ser, yk |-> NoHandle, err |-> "notfound"]
\* piv.Open(card) succeeded and the handle is returned
Opened(st, card) ==
    [st EXCEPT !.hs[NewHandle(st.hs)] = "open", !.ht[NewHandle(st.hs)] = card,
               !.yk = NewHandle(st.hs), !.err = "none"]
\* piv.Open(card) succeeded and the rejected handle is left open
OpenedNotClosed(st, card) ==
    [st EXCEPT !.hs[NewHandle(st.hs)] = "open", !.ht[NewHandle(st.hs)] = card]
\* piv.Open(card) succeeded, then yk.Close(): nothing refers to the handle
OpenedAndClosed(st, card) == st

\* a test that takes any token that answers
serialIsAny(card, ser) == TRUE
\* if serial == a.serial
serialIs(card, ser) == TokenSerial(card) = ser

\* connectToYK of src/go.mod, the loop over the cards
RECURSIVE scanCards(_, _)
scanCards(cards, st) ==
    IF cards = <<>> THEN [st EXCEPT !.err = "notfound"]
    ELSE LET card == Head(cards) IN
         IF ~CanOpen(card) THEN scanCards(Tail(cards), st)
         ELSE IF tok[card] = "mute"
              THEN scanCards(Tail(cards), OpenedAndClosed(st, card))
         ELSE IF st.serial # 0
              THEN IF serialIs(card, st.serial)
                   THEN Opened(st, card)
                   ELSE scanCards(Tail(cards), OpenedAndClosed(st, card))
         ELSE [Opened(st, card) EXCEPT !.serial = TokenSerial(card)]

\* openYK of src/main.go, the loop over the cards
RECURSIVE openYK(_, _)
openYK(cards, st) ==
    IF cards = <<>> THEN [st EXCEPT !.err = "openfail"]
    ELSE IF CanOpen(Head(cards))
         THEN Opened(st, Head(cards))
         ELSE openYK(Tail(cards), st)

\* connectToYK; cardsOK is the outcome of piv.Cards()
connectToYK(cardsOK, st) ==
    IF ~cardsOK THEN [st EXCEPT !.err = "cards"]
    ELSE IF Cards = <<>> THEN [st EXCEPT !.err = "nocards"]
    ELSE IF variant = "slots" THEN scanCards(Cards, st)
    ELSE LET r == openYK(Cards, st) IN
         IF r.err # "none" THEN r
         ELSE [r EXCEPT !.serial =
                 IF tok[r.ht[r.yk]] = "mute" THEN 0
                 ELSE TokenSerial(r.ht[r.yk])]

\* an ensureYK that reconnects on every call
NeedsConnectAlways == TRUE
\* ensureYK, as a function of the state: needed, and the outcome of the
\* reconnect
NeedsConnect == yk = NoHandle \/ ~healthy(yk)
ensureYK(cardsOK) ==
    connectToYK(cardsOK, Scan(CloseHandle(hState, yk), hToken, serial))

\* ------------------------------------------------------- slots and signers
\* a getPublicKey without the switch on the type of the key
getPublicKeyAnyType(h, s) ==
    IF hState[h] # "open" \/ Cert(hToken[h], s) = "none" THEN "nocert"
    ELSE IF Cert(hToken[h], s) = "ecbad" THEN "process"
    ELSE "none"
\* getPublicKey(yk, slot): "none" when it returns a key, else the cause
getPublicKey(h, s) ==
    IF hState[h] # "open" \/ Cert(hToken[h], s) = "none" THEN "nocert"
    ELSE IF Cert(hToken[h], s) = "other" THEN "badtype"
    ELSE IF Cert(hToken[h], s) = "ecbad" THEN "process"
    ELSE "none"

\* yk.PrivateKey(slot, pub, KeyAuth{PINPrompt, PINPolicy}): with no policy
\* given the token is asked to attest the key
PrivateKey(h, s, policy) ==
    IF policy # "unset" THEN "none"
    ELSE IF hState[h] = "open" /\ Attestable(hToken[h], s) THEN "none"
    ELSE "privkey"

\* one pass of the loop body of signers() for a slot
signerCause(h, s, policy) ==
    IF getPublicKey(h, s) # "none" THEN getPublicKey(h, s)
    ELSE PrivateKey(h, s, policy)

\* the public key of the signer built from a slot of the session
SignerKey(h, s) == PubKeyOf(hToken[h], s)

\* flags & bit != 0
HasFlag(f, bit) == (f \div bit) % 2 = 1

\* a switch that tests the SHA-512 flag first
ResolveAlg512First(k, f) ==
    IF k.type = KeyAlgoRSA /\ HasFlag(f, SignatureFlagRsaSha512)
    THEN SigAlgoRSASHA2512
    ELSE IF k.type = KeyAlgoRSA /\ HasFlag(f, SignatureFlagRsaSha256)
    THEN SigAlgoRSASHA2256
    ELSE k.type
\* the switch of SignWithFlags: the algorithm handed to SignWithAlgorithm
ResolveAlg(k, f) ==
    IF k.type = KeyAlgoRSA /\ HasFlag(f, SignatureFlagRsaSha256)
    THEN SigAlgoRSASHA2256
    ELSE IF k.type = KeyAlgoRSA /\ HasFlag(f, SignatureFlagRsaSha512)
    THEN SigAlgoRSASHA2512
    ELSE k.type

\* a comparison of the keys rather than of their encodings
MatchingById(h, ss, k) == {s \in ss : SignerKey(h, s).id = k.id}
\* the signers whose encoded public key equals the encoded requested key
Matching(h, ss, k) == {s \in ss : Marshal(SignerKey(h, s)) = Marshal(k)}

\* ------------------------------------------------------------ the handlers
\* a Lock() that does not wait for the holder
muFreeNoWait == TRUE
\* a.mu.Lock() returns only when nobody holds the mutex
muFree == mu = NoProc

\* an operation that returns without the deferred release
AfterOpNoRelease == "unlock"
\* where an operation goes once its result is set: src/main.go defers
\* maybeReleaseYK after ensureYK succeeded
AfterOp == IF variant = "single" THEN "release" ELSE "unlock"

\* a Sign that asks for SHA-256
SignFlagsSha256 == SignatureFlagRsaSha256
\* the flags Sign passes on
SignFlags == 0

Enter(p, o, k, f) ==
    /\ pc[p] = "idle"
    /\ muFree
    /\ mu' = p
    /\ pc' = [pc EXCEPT ![p] = "ensure"]
    /\ op' = [op EXCEPT ![p] = o]
    /\ key' = [key EXCEPT ![p] = k]
    /\ flags' = [flags EXCEPT ![p] = f]
    /\ UNCHANGED <<cfgVars, sighup, pinVars, wdVars, yk, serial, hwVars, tok, todo, got, errs, res,
                   conn, armed, alg, sess>>

\* List, up to a.mu.Lock()
List(p) == Enter(p, "List", NoKey, 0)
\* Signers, up to a.mu.Lock()
Signers(p) == Enter(p, "Signers", NoKey, 0)
\* SignWithFlags(key, data, flags), up to a.mu.Lock()
SignWithFlags(p, k, f) == Enter(p, "SignWithFlags", k, f)
\* Sign(key, data): SignWithFlags(key, data, 0)
Sign(p, k) == Enter(p, "Sign", k, SignFlags)
\* the operations that run the body of SignWithFlags
IsSign(o) == o \in {"Sign", "SignWithFlags"}

\* a return that drops the discovery error
couldNotReachEmpty(err) == Result("ok", "none")
\* return nil, fmt.Errorf("could not reach YubiKey: %w", err)
couldNotReach(err) == Result("unreachable", err)

\* ensureYK and the "could not reach YubiKey" return
EnsureYK(p) ==
    /\ pc[p] = "ensure"
    /\ \E cardsOK \in BOOLEAN :
         LET r == ensureYK(cardsOK) IN
         IF ~NeedsConnect
         THEN /\ pc' = [pc EXCEPT ![p] = "slots"]
              /\ todo' = [todo EXCEPT ![p] = ConfiguredSlots]
              /\ conn' = [conn EXCEPT ![p] = "kept"]
              /\ hq' = Sent(hq, yk, healthyCommands)
              /\ UNCHANGED <<yk, serial, hState, hToken, res>>
         ELSE /\ serial' = r.serial
              /\ conn' = [conn EXCEPT ![p] =
                    IF yk # NoHandle THEN "reconnecting" ELSE "connecting"]
              /\ IF r.err = "none"
                 THEN /\ yk' = r.yk
                      /\ hState' = Forget(r.hs, r.yk)
                      /\ hToken' = ForgetToken(Forget(r.hs, r.yk), r.ht)
                      /\ hq' = Logs(hState',
                                    Sent([hq EXCEPT ![r.yk] = "new"], r.yk,
                                         connectCommands))
                      /\ pc' = [pc EXCEPT ![p] = "slots"]
                      /\ todo' = [todo EXCEPT ![p] = ConfiguredSlots]
                      /\ res' = res
                 ELSE /\ yk' = yk
                      /\ hState' = r.hs
                      /\ hToken' = r.ht
                      /\ hq' = Logs(hState', Sent(hq, yk, healthyCommands))
                      /\ pc' = [pc EXCEPT ![p] = "unlock"]
                      /\ todo' = todo
                      /\ res' = [res EXCEPT ![p] = couldNotReach(r.err)]
    /\ UNCHANGED <<cfgVars, sighup, pinVars, wdVars, mu, tok, op, key, flags, got, errs, armed,
                   alg, sess>>

\* List: one pass of the loop over the slots, and the return after the last
ListSlot(p) ==
    /\ pc[p] = "slots"
    /\ op[p] = "List"
    /\ \E s \in todo[p] :
         LET c == getPublicKey(yk, s)
             keys == IF c = "none" THEN got[p] \cup {s} ELSE got[p]
             last == todo[p] = {s}
         IN IF variant = "single" /\ c # "none"
            THEN /\ res' = [res EXCEPT ![p] = Result("sloterr", c)]
                 /\ pc' = [pc EXCEPT ![p] = AfterOp]
                 /\ UNCHANGED <<todo, got>>
            ELSE /\ todo' = [todo EXCEPT ![p] = @ \ {s}]
                 /\ got' = [got EXCEPT ![p] = keys]
                 /\ res' = [res EXCEPT ![p] =
                              IF last THEN Result("ok", "none") ELSE @]
                 /\ pc' = [pc EXCEPT ![p] = IF last THEN AfterOp ELSE @]
    /\ conn' = [conn EXCEPT ![p] = "none"]
    /\ hq' = Sent(hq, yk, getPublicKeyCommands)
    /\ UNCHANGED <<cfgVars, sighup, pinVars, wdVars, mu, yk, serial, hState, hToken, tok, op,
                   key, flags, errs, armed, alg, sess>>

\* the check "some slot failed"
someSlotFailed(ss, es) == es # {}
\* if len(signers) == 0 { return nil, "failed to prepare a valid signer" }
noValidSigner(ss, es) == ss = {}

\* a signer kept from the first session
signerSessionFirst(h) == 1
\* a.yk.PrivateKey(...): the key of a signer is bound to the handle a.yk
\* names when signers() runs
signerSession(h) == h

\* signers(): one pass of the loop over the slots, and the return after the
\* last
SignerSlot(p) ==
    /\ pc[p] = "slots"
    /\ op[p] = "Signers" \/ IsSign(op[p])
    /\ \E s \in todo[p] :
         LET c == signerCause(yk, s, slotConfiguration[s])
             ss == IF c = "none" THEN got[p] \cup {s} ELSE got[p]
             es == IF c = "none" THEN errs[p] ELSE errs[p] \cup {<<s, c>>}
             last == todo[p] = {s}
         IN /\ hq' = Sent(hq, yk, getPublicKeyCommands \o
                          IF getPublicKey(yk, s) = "none"
                          THEN PrivateKeyCommands(slotConfiguration[s])
                          ELSE <<>>)
            /\ IF variant = "single" /\ c # "none"
               THEN /\ res' = [res EXCEPT ![p] = Result("sloterr", c)]
                    /\ errs' = [errs EXCEPT ![p] = es]
                    /\ pc' = [pc EXCEPT ![p] = AfterOp]
                    /\ UNCHANGED <<todo, got>>
               ELSE /\ todo' = [todo EXCEPT ![p] = @ \ {s}]
                    /\ got' = [got EXCEPT ![p] = ss]
                    /\ errs' = [errs EXCEPT ![p] = es]
                    /\ res' = [res EXCEPT ![p] =
                         IF last /\ noValidSigner(ss, es)
                         THEN Result("novalidsigner", "all")
                         ELSE IF last /\ op[p] = "Signers"
                              THEN Result("ok", "none")
                         ELSE @]
                    /\ pc' = [pc EXCEPT ![p] =
                         IF ~last THEN @
                         ELSE IF noValidSigner(ss, es) \/ op[p] = "Signers"
                              THEN AfterOp
                         ELSE "match"]
    /\ conn' = [conn EXCEPT ![p] = "none"]
    /\ sess' = [sess EXCEPT ![p] = signerSession(yk)]
    /\ UNCHANGED <<cfgVars, sighup, pinVars, wdVars, mu, yk, serial, hState, hToken, tok, op,
                   key, flags, armed, alg>>

\* Stop() of the timer t: true, and the timer stopped, when it was running
StopTimer(ts, t) == IF ts[t] = "running" THEN [ts EXCEPT ![t] = "stopped"]
                    ELSE ts
\* some goroutine's select waits on the channel of timer t
Bound(ws, t) == \E g \in ws : g.pc = "select" /\ g.tm = t
\* a timer no select waits on is garbage, if old, and cannot deliver its
\* value, if current and no goroutine is left
Timers(ts, ws) ==
    [t \in TimerNames |->
       IF t = "old" /\ ~Bound(ws, "old") THEN "free"
       ELSE IF t = "cur" /\ ws = {} /\ ts[t] = "fired" THEN "stopped"
       ELSE ts[t]]

\* A watchdog goroutine is [pc, tm, live]: where it is, a timer (before its
\* select the timer armed with it, at its select the timer whose channel it
\* waits on), whether its context is live. Goroutines in the same state are
\* not told apart.
\* src/go.mod: go func() { select ... }, not yet at its select;
\* src/main.go: showNotification has run and the goroutine waits for
\* ctx.Done() to remove the notification
Started ==
    [pc |-> IF variant = "slots" THEN "start" ELSE "shown",
     tm |-> IF variant = "slots" THEN "cur" ELSE NoTimer, live |-> TRUE]
\* a.touchNotification = time.NewTimer(5 * time.Second) (src/go.mod only):
\* the timer named so far becomes the old one
armTimer == IF variant = "slots" THEN "cur" ELSE touchNotification
Demote(ws) ==
    {IF g.tm = "cur" THEN [g EXCEPT !.tm = "old"] ELSE g : g \in ws}
armedTimers(ts, ws) ==
    [t \in TimerNames |->
       IF t = "cur" THEN "running"
       ELSE IF Bound(ws, "cur") THEN ts["cur"]
       ELSE IF Bound(ws, "old") THEN ts["old"]
       ELSE "free"]

\* runtime.GOOS == "linux": the builds modelled run on macOS or on Linux
linux == ~darwin
\* src/main.go on Linux: cmd.Start() failed (notify-send is missing or does
\* not start), cmd.Process is nil, and the goroutine holds a remove that
\* signals cmd.Process
StartedNoProcess == [Started EXCEPT !.pc = "shownNil"]
\* the goroutines SignWithFlags may start, by what showNotification did
Goroutines ==
    IF variant = "single" /\ linux THEN {Started, StartedNoProcess}
    ELSE {Started}

\* SignWithFlags: the loop over the signers up to the hardware call
Match(p) ==
    /\ pc[p] = "match"
    /\ IF Matching(yk, got[p], key[p]) = {}
       THEN /\ res' = [res EXCEPT ![p] = Result("nomatch", "none")]
            /\ pc' = [pc EXCEPT ![p] = AfterOp]
            /\ UNCHANGED <<armed, alg>>
            /\ UNCHANGED <<touchNotification, tState, wd>>
       ELSE /\ armed' = [armed EXCEPT ![p] = TRUE]
            /\ alg' = [alg EXCEPT ![p] = ResolveAlg(key[p], flags[p])]
            /\ pc' = [pc EXCEPT ![p] = "hwsign"]
            /\ res' = res
            \* (two timers are followed: a third call is not armed while
            \* selects still wait on both)
            /\ ~(Bound(wd, "cur") /\ Bound(wd, "old"))
            /\ touchNotification' = armTimer
            /\ IF variant = "slots"
               THEN /\ wd' = Demote(wd) \cup {Started}
                    /\ tState' = armedTimers(tState, wd)
               ELSE /\ \E g \in Goroutines : wd' = wd \cup {g}
                    /\ tState' = tState
    /\ UNCHANGED <<cfgVars, sighup, pinVars, prompt, mu, yk, serial, hwVars, tok, op, key,
                   flags, todo, got, errs, conn, sess>>

\* defer cancel(): the context of the goroutine the call started is done
cancel(ws) == {[g EXCEPT !.live = FALSE] : g \in ws}

\* a loop that asks for the PIN again when the hardware call failed
afterSignRetry(ok) == IF ok THEN AfterOp ELSE "hwsign"
\* return s.(ssh.AlgorithmSigner).SignWithAlgorithm(rand.Reader, data, alg):
\* whatever the hardware call returns, the call returns it
afterSign(ok) == AfterOp

\* SignWithAlgorithm on the token returns: touch, signature; a wrong PIN
\* fails it
HwSign(p) ==
    /\ pc[p] = "hwsign"
    /\ prompt \in {"none", "done", "wrong"}
    /\ \E ok \in BOOLEAN :
         /\ ok => hState[sess[p]] = "open" /\ prompt # "wrong"
         /\ res' = [res EXCEPT ![p] =
                      IF ok THEN Result("sigok", alg[p])
                      ELSE Result("sigfail", IF prompt = "wrong" THEN "pin"
                                             ELSE "hardware")]
         /\ pc' = [pc EXCEPT ![p] = afterSign(ok)]
    /\ prompt' = "none"
    /\ wd' = cancel(wd)
    /\ hq' = Sent(hq, sess[p], signCommands)
    /\ UNCHANGED <<cfgVars, sighup, pinVars, touchNotification, tState, mu, yk, serial,
                   hState, hToken, tok, op, key, flags, todo, got, errs, conn,
                   armed, alg, sess>>

\* getPIN while the hardware call waits: the timer is stopped, and will be
\* reset when the prompt returns, if Stop() says it was still running
\* (src/go.mod); then the prompt opens
PinOpen(p) ==
    /\ pc[p] = "hwsign"
    /\ prompt = "none"
    /\ slotConfiguration[CHOOSE s \in got[p] :
            Marshal(SignerKey(yk, s)) = Marshal(key[p])] # "never"
    /\ IF variant = "slots" /\ touchNotification # NoTimer
          /\ tState[touchNotification] = "running"
       THEN /\ tState' = StopTimer(tState, touchNotification)
            /\ prompt' = "openReset"
       ELSE /\ tState' = tState
            /\ prompt' = "open"
    /\ hq' = Sent(hq, yk, getPINCommands)
    /\ UNCHANGED <<cfgVars, sighup, pinVars, touchNotification, wd, mu, yk, serial, hState,
                   hToken, tok, pc, callVars>>

\* the prompt returns with the PIN the user typed, right or wrong, and the
\* deferred Reset(5 * time.Second) runs
PinDone(p) ==
    /\ pc[p] = "hwsign"
    /\ prompt \in {"open", "openReset"}
    /\ \E good \in BOOLEAN : prompt' = IF good THEN "done" ELSE "wrong"
    /\ tState' = IF prompt = "openReset"
                  THEN [tState EXCEPT ![touchNotification] = "running"]
                  ELSE tState
    /\ UNCHANGED <<cfgVars, sighup, pinVars, touchNotification, wd, mu, yk, serial, hwVars,
                   tok, pc, callVars>>

\* ------------------------------------------------------------ the watchdog
\* the 5 seconds of a running timer elapse: a value is sent on its channel
Expire(t) ==
    /\ tState[t] = "running"
    /\ tState' = [tState EXCEPT ![t] = "fired"]
    /\ UNCHANGED <<cfgVars, sighup, pinVars, touchNotification, wd, prompt, mu, yk, serial,
                   hwVars, tok, pc, callVars>>

\* the goroutine reaches its select: the channel operand
\* a.touchNotification.C is evaluated now
WdSelect(g) ==
    /\ g.pc = "start"
    /\ wd' = (wd \ {g}) \cup
              {[g EXCEPT !.pc = "select", !.tm = touchNotification]}
    /\ UNCHANGED <<cfgVars, sighup, pinVars, touchNotification, tState, prompt, mu, yk,
                   serial, hwVars, tok, pc, callVars>>

\* case <-a.touchNotification.C: the value of the expired timer is received
WdTimer(g) ==
    /\ g.pc = "select"
    /\ tState[g.tm] = "fired"
    /\ wd' = (wd \ {g}) \cup {[g EXCEPT !.pc = "notify", !.tm = NoTimer]}
    /\ tState' = Timers([tState EXCEPT ![g.tm] = "stopped"], wd')
    /\ UNCHANGED <<cfgVars, sighup, pinVars, touchNotification, prompt, mu, yk, serial,
                   hwVars, tok, pc, callVars>>

\* the timer the goroutine stops when its context is done:
\* a.touchNotification, read at that moment
stoppedOnCancel(g) == touchNotification

\* case <-ctx.Done(): a.touchNotification.Stop(); return
WdCancel(g) ==
    /\ g.pc = "select"
    /\ ~g.live
    /\ wd' = wd \ {g}
    /\ tState' = Timers(StopTimer(tState, stoppedOnCancel(g)), wd')
    /\ UNCHANGED <<cfgVars, sighup, pinVars, touchNotification, prompt, mu, yk, serial,
                   hwVars, tok, pc, callVars>>

\* showNotification("Waiting for YubiKey touch..."), and the goroutine ends
WdShow(g) ==
    /\ g.pc = "notify"
    /\ wd' = wd \ {g}
    /\ tState' = Timers(tState, wd')
    /\ UNCHANGED <<cfgVars, sighup, pinVars, touchNotification, prompt, mu, yk, serial,
                   hwVars, tok, pc, callVars>>

\* remove(): cmd.Process.Signal(os.Interrupt) dereferences cmd.Process, nil
\* when cmd.Start() failed: the goroutine panics
removePanics(g) == g.pc = "shownNil"

\* src/main.go: case <-ctx.Done(): remove(); return. A panic in the
\* goroutine ends the process: every goroutine is gone and the system
\* releases the transactions the process held.
WdRemove(g) ==
    /\ g.pc \in {"shown", "shownNil"}
    /\ ~g.live
    /\ IF removePanics(g)
       THEN /\ pc' = [p \in Procs |-> "dead"]
            /\ mu' = NoProc
            /\ yk' = NoHandle
            /\ hState' = [h \in Handles |-> "free"]
            /\ hToken' = [h \in Handles |-> NoToken]
            /\ hq' = [h \in Handles |-> "none"]
            /\ wd' = {}
       ELSE /\ wd' = wd \ {g}
            /\ UNCHANGED <<mu, yk, hwVars, pc>>
    /\ UNCHANGED <<cfgVars, sighup, pinVars, touchNotification, tState, prompt, serial, tok,
                   callVars>>

\* maybeReleaseYK (deferred, src/main.go)
maybeReleaseYK(p) ==
    /\ pc[p] = "release"
    /\ IF ~darwin \/ TokenMajor(hToken[yk]) < 5
       THEN UNCHANGED <<yk, hState, hToken, hq>>
       ELSE /\ hState' = Forget(CloseHandle(hState, yk), NoHandle)
            /\ hToken' = ForgetToken(hState', hToken)
            /\ hq' = Logs(hState', hq)
            /\ yk' = NoHandle
    /\ pc' = [pc EXCEPT ![p] = "unlock"]
    /\ UNCHANGED <<cfgVars, sighup, pinVars, wdVars, mu, serial, tok, callVars>>

\* an Unlock that is skipped on the "could not reach YubiKey" return
unlockUnlessUnreachable(p) ==
    IF res[p].kind = "unreachable" THEN mu ELSE NoProc
\* defer a.mu.Unlock(): the mutex after the return of p
deferredUnlock(p) == NoProc

\* the deferred a.mu.Unlock() and the return to the caller
Unlock(p) ==
    /\ pc[p] = "unlock"
    /\ mu' = IF mu = p THEN deferredUnlock(p) ELSE mu
    /\ pc' = [pc EXCEPT ![p] = IF p = Hup THEN "recv" ELSE "idle"]
    /\ op' = [op EXCEPT ![p] = "none"]
    /\ key' = [key EXCEPT ![p] = NoKey]
    /\ flags' = [flags EXCEPT ![p] = 0]
    /\ todo' = [todo EXCEPT ![p] = {}]
    /\ got' = [got EXCEPT ![p] = {}]
    /\ errs' = [errs EXCEPT ![p] = {}]
    /\ res' = [res EXCEPT ![p] = NoResult]
    /\ conn' = [conn EXCEPT ![p] = "none"]
    /\ armed' = [armed EXCEPT ![p] = FALSE]
    /\ alg' = [alg EXCEPT ![p] = "none"]
    /\ sess' = [sess EXCEPT ![p] = NoHandle]
    /\ UNCHANGED <<cfgVars, sighup, pinVars, wdVars, yk, serial, hwVars, tok>>

\* ------------------------------------------------------------- the hang-up
\* signal.Notify delivers SIGHUP to the handler waiting in "for range c",
\* which calls a.Close()
SigHup ==
    /\ pc[Hup] = "recv"
    /\ pc' = [pc EXCEPT ![Hup] = "called"]
    /\ sighup' = FALSE
    /\ UNCHANGED <<cfgVars, pinVars, wdVars, mu, yk, serial, hwVars, tok, callVars>>

\* A SIGHUP arrives while the handler is not waiting in "for range c": the
\* channel c is unbuffered (make(chan os.Signal)) and package signal does not
\* block sending to it, so the notification is dropped.
SigHupBusy ==
    /\ pc[Hup] \in {"called", "closing", "unlock"}
    /\ sighup' = TRUE
    /\ UNCHANGED <<cfgVars, pinVars, wdVars, mu, yk, serial, hwVars, tok, pc, callVars>>

\* Close, up to a.mu.Lock()
CloseLock ==
    /\ pc[Hup] = "called"
    /\ muFree
    /\ mu' = Hup
    /\ pc' = [pc EXCEPT ![Hup] = "closing"]
    /\ op' = [op EXCEPT ![Hup] = "Close"]
    /\ UNCHANGED <<cfgVars, sighup, pinVars, wdVars, yk, serial, hwVars, tok, key, flags, todo, got,
                   errs, res, conn, armed, alg, sess>>

\* a.yk keeps naming the handle after yk.Close()
afterCloseKeep(h) == h
\* a.yk = nil
afterClose(h) == NoHandle

\* a Close that does not look at a.yk
hasSessionAlways(h) == TRUE
\* if a.yk != nil
hasSession(h) == h # NoHandle

\* Close, the body under the lock, run by p; closeOK is what yk.Close()
\* returns
CloseBody(p) ==
    /\ pc[p] = "closing"
    /\ \E closeOK \in BOOLEAN :
         /\ (~hasSession(yk) \/ yk = NoHandle \/ hState[yk] = "open")
              => closeOK
         /\ res' = [res EXCEPT ![p] =
                      IF closeOK THEN Result("ok", "none")
                      ELSE Result("closeerr", "hardware")]
    /\ conn' = [conn EXCEPT ![p] =
                  IF hasSession(yk) THEN "dropping" ELSE "none"]
    /\ hState' = Forget(CloseHandle(hState, yk), afterClose(yk))
    /\ hToken' = ForgetToken(hState', hToken)
    /\ hq' = Logs(hState', hq)
    /\ yk' = afterClose(yk)
    /\ pc' = [pc EXCEPT ![p] = "unlock"]
    /\ UNCHANGED <<cfgVars, sighup, pinVars, wdVars, mu, serial, tok, op, key, flags, todo, got,
                   errs, armed, alg, sess>>

\* Close called by the hang-up handler
Close == CloseBody(Hup)

\* --------------------------------------------- the operations not served
\* the connection that sends the key-management requests (ssh-add -D, -x ...)
Managing == {"c2"}
Passphrases == {"", "secret"}

\* a handler that reports success
ErrNone == Result("ok", "none")
\* var ErrOperationUnsupported = errors.New("operation unsupported")
ErrOperationUnsupported == Result("opunsupported", "none")
\* agent.ErrExtensionUnsupported
ErrExtensionUnsupported == Result("extunsupported", "none")

\* a handler that returns r at once: no lock, no field of the agent touched
Immediate(p, o, r) ==
    /\ pc[p] = "idle"
    /\ pc' = [pc EXCEPT ![p] = "unlock"]
    /\ op' = [op EXCEPT ![p] = o]
    /\ res' = [res EXCEPT ![p] = r]
    /\ UNCHANGED <<cfgVars, sighup, pinVars, wdVars, mu, yk, serial, hwVars, tok, key, flags, todo,
                   got, errs, conn, armed, alg, sess>>

\* Add(key agent.AddedKey)
Add(p, k) == Immediate(p, "Add", ErrOperationUnsupported)
\* Remove(key ssh.PublicKey)
Remove(p, k) == Immediate(p, "Remove", ErrOperationUnsupported)
\* Lock(passphrase []byte)
LockAgent(p, pass) == Immediate(p, "Lock", ErrOperationUnsupported)
\* Unlock(passphrase []byte)
UnlockAgent(p, pass) == Immediate(p, "Unlock", ErrOperationUnsupported)
\* an Extension that answers like the other operations
ExtensionResultGeneric == ErrOperationUnsupported
\* return nil, agent.ErrExtensionUnsupported
ExtensionResult == ErrExtensionUnsupported
\* Extension(extensionType string, contents []byte)
Extension(p, ty, contents) == Immediate(p, "Extension", ExtensionResult)
ExtensionTypes == {"session-bind@openssh.com", "query"}

\* RemoveAll: a.Close() in src/main.go (up to a.mu.Lock()),
\* ErrOperationUnsupported in src/go.mod
RemoveAll(p) ==
    IF variant = "single"
    THEN /\ pc[p] = "idle"
         /\ muFree
         /\ mu' = p
         /\ pc' = [pc EXCEPT ![p] = "closing"]
         /\ op' = [op EXCEPT ![p] = "RemoveAll"]
         /\ UNCHANGED <<cfgVars, sighup, pinVars, wdVars, yk, serial, hwVars, tok, key, flags, todo,
                        got, errs, res, conn, armed, alg, sess>>
    ELSE Immediate(p, "RemoveAll", ErrOperationUnsupported)

\* ---------------------------------------------------------- the environment
\* a token is attached
Plug(t) ==
    /\ tok[t] = "absent"
    /\ \E st \in TokStates(t) \ {"absent"} : tok' = [tok EXCEPT ![t] = st]
    /\ UNCHANGED <<cfgVars, sighup, pinVars, wdVars, mu, yk, serial, hwVars, pc, callVars>>

\* a token is removed: the sessions on it are lost
Unplug(t) ==
    /\ tok[t] # "absent"
    /\ tok' = [tok EXCEPT ![t] = "absent"]
    /\ hState' = [h \in Handles |->
                    IF hState[h] = "open" /\ hToken[h] = t THEN "lost"
                    ELSE hState[h]]
    /\ UNCHANGED <<cfgVars, sighup, pinVars, wdVars, mu, yk, serial, hToken, hq, pc, callVars>>

\* sleep, suspend, a card reset: an open session is lost, the token stays
Glitch(h) ==
    /\ hState[h] = "open"
    /\ hState' = [hState EXCEPT ![h] = "lost"]
    /\ UNCHANGED <<cfgVars, sighup, pinVars, wdVars, mu, yk, serial, hToken, hq, tok, pc,
                   callVars>>

\* another application (gpg-agent) takes or gives back a token the agent
\* holds no transaction on
OtherApp(t) ==
    /\ \A h \in Handles : ~(hState[h] = "open" /\ hToken[h] = t)
    /\ \/ tok[t] = "ready" /\ "busy" \in TokStates(t)
          /\ tok' = [tok EXCEPT ![t] = "busy"]
       \/ tok[t] = "busy" /\ tok' = [tok EXCEPT ![t] = "ready"]
    /\ UNCHANGED <<cfgVars, sighup, pinVars, wdVars, mu, yk, serial, hwVars, pc, callVars>>

Next ==
    \/ \E p \in Clients : List(p)
    \/ \E p \in Clients : Signers(p)
    \/ \E p \in Signing, k \in RequestKeys : Sign(p, k)
    \/ \E p \in Signing, r \in SignRequests : SignWithFlags(p, r[1], r[2])
    \/ \E p \in Clients : EnsureYK(p)
    \/ \E p \in Clients : ListSlot(p)
    \/ \E p \in Clients : SignerSlot(p)
    \/ \E p \in Clients : Match(p)
    \/ \E p \in Clients : HwSign(p)
    \/ \E p \in Clients : maybeReleaseYK(p)
    \/ \E p \in Procs : Unlock(p)
    \/ SigHup
    \/ CloseLock
    \/ Close
    \/ \E t \in Tokens : Plug(t)
    \/ \E t \in Tokens : Unplug(t)
    \/ \E h \in Handles : Glitch(h)
    \/ \E t \in Tokens : OtherApp(t)

\* the PIN prompt, the timers and the watchdog goroutines
Watchdog ==
    \/ \E p \in Signing : PinOpen(p)
    \/ \E p \in Signing : PinDone(p)
    \/ \E t \in TimerNames : Expire(t)
    \/ \E g \in wd : WdSelect(g)
    \/ \E g \in wd : WdTimer(g)
    \/ \E g \in wd : WdCancel(g)
    \/ \E g \in wd : WdShow(g)
    \/ \E g \in wd : WdRemove(g)

\* the sign requests of one connection, and the tokens being attached
SignCalls ==
    \/ \E p \in Signing, k \in RequestKeys : Sign(p, k)
    \/ \E p \in Signing, r \in SignRequests : SignWithFlags(p, r[1], r[2])
    \/ \E p \in Signing : EnsureYK(p)
    \/ \E p \in Signing : SignerSlot(p)
    \/ \E p \in Signing : Match(p)
    \/ \E p \in Signing : HwSign(p)
    \/ \E p \in Signing : maybeReleaseYK(p)
    \/ \E p \in Signing : Unlock(p)
    \/ \E t \in Tokens : Plug(t)

\* the agent serving sign requests, with the PIN prompt, the timers and the
\* watchdog goroutines running
NextWatch == SignCalls \/ Watchdog

\* the key-management requests of the protocol
Manage ==
    \/ \E p \in Managing, k \in RequestKeys : Add(p, [PublicKey |-> k])
    \/ \E p \in Managing, k \in RequestKeys : Remove(p, k)
    \/ \E p \in Managing, pass \in Passphrases : LockAgent(p, pass)
    \/ \E p \in Managing, pass \in Passphrases : UnlockAgent(p, pass)
    \/ \E p \in Managing, ty \in ExtensionTypes, k \in RequestKeys :
         Extension(p, ty, Marshal(k))
    \/ \E p \in Managing : RemoveAll(p)
    \/ \E p \in Managing : CloseBody(p)

\* the list requests, the hang-up and the tokens coming and going
ListCalls ==
    \/ \E p \in Clients : List(p)
    \/ \E p \in Clients : EnsureYK(p)
    \/ \E p \in Clients : ListSlot(p)
    \/ \E p \in Clients : maybeReleaseYK(p)
    \/ \E p \in Procs : Unlock(p)
    \/ SigHup
    \/ CloseLock
    \/ Close
    \/ \E t \in Tokens : Plug(t)
    \/ \E t \in Tokens : Unplug(t)
    \/ \E h \in Handles : Glitch(h)
    \/ \E t \in Tokens : OtherApp(t)

\* the agent serving list requests and key-management requests
NextManage == ListCalls \/ Manage

\* The agent's handlers and its environment. The steps of the watchdog
\* goroutines and the PIN prompt are those of Watchdog: they change only the
\* timers, the goroutines and the prompt, which no handler of Next reads.
Spec == Init /\ [][Next]_vars

\* the steps of the goroutine that holds a.mu: each returns (a probe, a read
\* or a signature ends or times out), so the holder reaches its Unlock
HolderStep ==
    \/ \E p \in Clients : \/ EnsureYK(p)
                          \/ ListSlot(p)
                          \/ SignerSlot(p)
                          \/ Match(p)
                          \/ HwSign(p)
                          \/ maybeReleaseYK(p)
    \/ \E p \in Procs : Unlock(p)
    \/ \E p \in Managing : CloseBody(p)
    \/ Close

\* The scheduler runs the goroutine that holds the mutex, and sync.Mutex hands
\* the lock to a waiter that has waited long enough (starvation mode), so the
\* Lock() of Close is not overtaken for ever.
LiveSpec == Spec /\ WF_vars(HolderStep) /\ SF_vars(CloseLock)

\* the agent signing, and its touch notifications
WatchSpec == Init /\ [][NextWatch]_vars

\* the steps of the watchdog goroutines
GoroutineStep ==
    \E g \in wd : \/ WdSelect(g)
                  \/ WdTimer(g)
                  \/ WdCancel(g)
                  \/ WdShow(g)
                  \/ WdRemove(g)

\* Time passes, so a running timer expires; the Go scheduler runs a goroutine
\* that can take a step; the user answers the PIN prompt. Nothing makes the
\* user touch the token: the hardware call may wait for ever.
WatchLiveSpec ==
    /\ WatchSpec
    /\ \A t \in TimerNames : WF_vars(Expire(t))
    /\ WF_vars(GoroutineStep)
    /\ WF_vars(\E p \in Signing : PinDone(p))

\* the agent serving list requests while hang-up signals arrive at any time
NextSignal == ListCalls \/ SigHupBusy
SignalSpec == Init /\ [][NextSignal]_vars
\* The scheduler runs the goroutine that holds the mutex and the Lock() of
\* Close is not overtaken for ever, as in LiveSpec; nothing makes a further
\* SIGHUP arrive.
SignalLiveSpec == SignalSpec /\ WF_vars(HolderStep) /\ SF_vars(CloseLock)

\* the PIN prompts of a sequence of signatures, and the token's answers
NextPin == AgentGetPIN \/ VerifyPIN
PinSpec == InitPin /\ [][NextPin]_vars

\* the agent on a connection that also sends key-management requests
ManageSpec == Init /\ [][NextManage]_vars

\* the command line being parsed, then the agent serving one connection and
\* the hang-up signal
NextFlags ==
    \/ \E slot \in SlotFlags : Set(slot)
    \/ runAgent
    \/ \E p \in Signing : List(p)
    \/ \E p \in Signing : Signers(p)
    \/ \E p \in Signing, k \in RequestKeys : Sign(p, k)
    \/ \E p \in Signing, r \in SignRequests : SignWithFlags(p, r[1], r[2])
    \/ \E p \in Signing : EnsureYK(p)
    \/ \E p \in Signing : ListSlot(p)
    \/ \E p \in Signing : SignerSlot(p)
    \/ \E p \in Signing : Match(p)
    \/ \E p \in Signing : HwSign(p)
    \/ \E p \in Signing : Unlock(p)
    \/ \E t \in Tokens : Plug(t)
    \/ SigHup
    \/ CloseLock
    \/ Close
    \/ Unlock(Hup)

\* the agent of src/go.mod from its command line on
FlagSpec == InitFlags /\ [][NextFlags]_vars

\* =================================================================== claims
\* the positions between a.mu.Lock() and the deferred a.mu.Unlock() where
\* the token is probed, discovered, read, asked to sign or closed
HardwareSection == {"ensure", "slots", "match", "hwsign", "release", "closing"}
\* process p takes a step of its own
Steps(p) == pc'[p] # pc[p] \/ todo'[p] # todo[p]

\* C1: for every interleaving of concurrent List, Signers, SignWithFlags and
\* Close calls, at most one of them is in its hardware-touching section
\* (health probe, discovery, certificate read, signature, session close).
C1_OneHardwareOperation ==
    Cardinality({p \in Procs : pc[p] \in HardwareSection}) <= 1
\* a signature is in progress while a Close call waits for the mutex
C1_Witness == pc["c1"] = "hwsign" /\ pc[Hup] = "called"

\* C2: when the session held at the start of List, Signers or SignWithFlags
\* fails its health probe, ensureYK closes that handle and the operation
\* either goes on with a newly opened handle or returns "could not reach
\* YubiKey"; and every certificate read and signature is issued on a handle
\* that has not been closed.
C2_ReconnectBeforeUse ==
    [][\A p \in Clients :
         /\ (pc[p] = "ensure" /\ Steps(p) /\ yk # NoHandle
               /\ hState[yk] # "open")
            => /\ hState'[yk] \in {"closed", "free"}
               /\ \/ /\ pc'[p] = "slots"
                     /\ yk' # yk
                     /\ hState[yk'] = "free"
                     /\ hState'[yk'] = "open"
                  \/ /\ pc'[p] = "unlock"
                     /\ res'[p].kind = "unreachable"
         /\ (pc[p] \in {"slots", "hwsign"} /\ Steps(p))
            => yk # NoHandle /\ hState[yk] \in {"open", "lost"}
      ]_vars
\* an operation reconnected and is about to read from the new handle
C2_Witness ==
    \E p \in Clients : /\ pc[p] = "slots"
                       /\ conn[p] = "reconnecting"
                       /\ hState[yk] = "open"

\* a token the configured selection policy accepts is attached, opens and
\* answers the serial query
Usable(t) ==
    tok[t] = "ready" /\ (cardSerial = 0 \/ TokenSerial(t) = cardSerial)

\* C3: from any reachable state, once a token that satisfies the configured
\* selection policy is attached and opens, the next List, Signers or
\* SignWithFlags call obtains a healthy session and does not fail with
\* "could not reach YubiKey" (the card enumeration itself failing aside).
C3_RecoversWithoutRestart ==
    [][\A p \in Clients :
         (pc[p] = "ensure" /\ Steps(p) /\ \E t \in Tokens : Usable(t))
         => \/ pc'[p] = "slots" /\ yk' # NoHandle /\ hState'[yk'] = "open"
            \/ res'[p].why = "cards"
      ]_vars

\* C4: once the hang-up handler has received a SIGHUP it eventually completes
\* Close; when Close has run the agent holds no session (yk = nil) and no
\* transaction on any token, and the handler is back waiting for signals with
\* the mutex free for the next request.
C4_HangUpClosesSession ==
    /\ [](pc[Hup] = "unlock"
            => yk = NoHandle /\ \A h \in Handles : hState[h] # "open")
    /\ (pc[Hup] = "called") ~> (pc[Hup] = "unlock")
    /\ (pc[Hup] = "unlock") ~> (pc[Hup] = "recv" /\ mu = NoProc)
\* Close has dropped a session
C4_Witness ==
    pc[Hup] = "unlock" /\ conn[Hup] = "dropping" /\ yk = NoHandle

\* a token discovery accepts: it opens and, in src/go.mod, answers the serial
\* query with the serial looked for
Acceptable(t) ==
    /\ tok[t] \in {"ready", "mute"}
    /\ variant = "slots"
         => tok[t] = "ready" /\ (serial = 0 \/ TokenSerial(t) = serial)

\* C5: when List, Signers or SignWithFlags has no healthy session and
\* discovery finds no token it accepts, the operation returns "could not
\* reach YubiKey" with no keys; List does not return an empty list and a nil
\* error.
C5_UnreachableIsAnError ==
    [][\A p \in Clients :
         (/\ pc[p] = "ensure" /\ Steps(p)
          /\ yk = NoHandle \/ hState[yk] # "open"
          /\ \A t \in Tokens : ~Acceptable(t))
         => /\ pc'[p] = "unlock"
            /\ res'[p].kind = "unreachable"
            /\ got'[p] = {}
      ]_vars
\* List returns the error with no card attached
C5_Witness ==
    \E p \in Clients : /\ op[p] = "List"
                       /\ pc[p] = "unlock"
                       /\ res[p] = Result("unreachable", "nocards")

\* C6: with a reachable device List returns no error, and returns the keys of
\* exactly the configured slots that hold a valid key; slots with no
\* certificate or an unusable key are skipped.
C6_ListIsBestEffort ==
    \A p \in Clients :
        (op[p] = "List" /\ pc[p] = AfterOp /\ res[p].kind # "unreachable")
        => /\ res[p].kind = "ok"
           /\ hState[yk] = "open"
                => got[p] = {s \in ConfiguredSlots :
                               getPublicKey(yk, s) = "none"}

\* C7: producing signers (the session reached) fails only when no configured
\* slot produced a signer, and the failure then carries one cause for each
\* configured slot; when a slot succeeds the result is the signers of the
\* succeeding slots and no error.
C7_SignersFailOnlyIfAllFail ==
    \A p \in Clients :
        (op[p] = "Signers" /\ pc[p] = AfterOp /\ res[p].kind # "unreachable")
        => /\ res[p].kind \in {"ok", "novalidsigner", "sloterr"}
           /\ res[p].kind # "ok"
                => /\ got[p] = {}
                   /\ {e[1] : e \in errs[p]} = ConfiguredSlots
                   /\ Cardinality(errs[p]) = Cardinality(ConfiguredSlots)
           /\ res[p].kind = "ok"
                => /\ got[p] # {}
                   /\ got[p] = ConfiguredSlots \ {e[1] : e \in errs[p]}
                   /\ hState[yk] = "open"
                        => got[p] = {s \in ConfiguredSlots :
                               signerCause(yk, s, slotConfiguration[s])
                                 = "none"}
\* signers returned although one of three slots failed
C7_Witness ==
    \E p \in Clients : /\ op[p] = "Signers"
                       /\ pc[p] = AfterOp
                       /\ res[p].kind = "ok"
                       /\ errs[p] # {}
                       /\ Cardinality(ConfiguredSlots) = 3
\* all three slots failed
C7_WitnessAllFail ==
    \E p \in Clients : /\ op[p] = "Signers"
                       /\ res[p].kind = "novalidsigner"
                       /\ Cardinality(errs[p]) = 3

\* some signer's encoded public key equals the encoded requested key
ByteMatch(p) ==
    \E s \in got[p] : Marshal(SignerKey(yk, s)) = Marshal(key[p])

\* C8: a sign request for a key whose encoding equals the encoded public key
\* of no current signer returns the no-matching-key error; the touch
\* notification is armed and the hardware asked to sign only for a key that
\* matches byte for byte.
C8_NoMatchNoSignature ==
    /\ [](\A p \in Clients :
            /\ (armed[p] /\ yk # NoHandle) => ByteMatch(p)
            /\ pc[p] = "hwsign" => armed[p] /\ ByteMatch(p)
            /\ res[p].kind \in {"sigok", "sigfail"} => armed[p])
    /\ [][\A p \in Clients :
            (pc[p] = "match" /\ Steps(p) /\ ~ByteMatch(p))
            => /\ pc'[p] = AfterOp
               /\ res'[p] = Result("nomatch", "none")
               /\ ~armed'[p]
               /\ alg'[p] = "none"
         ]_vars
\* the same key in another encoding is refused
C8_Witness ==
    \E p \in Clients : /\ res[p].kind = "nomatch"
                       /\ key[p].enc = "alt"
                       /\ \E s \in got[p] : SignerKey(yk, s).id = key[p].id

\* C9: the algorithm handed to the hardware signer is rsa-sha2-256 for an
\* ssh-rsa key with the SHA-256 flag (alone or with the SHA-512 flag),
\* rsa-sha2-512 for an ssh-rsa key with only the SHA-512 flag, and the key's
\* own type for an ssh-rsa key with neither flag and for any other key.
C9_AlgorithmTable ==
    \A p \in Clients :
        pc[p] = "hwsign"
        => alg[p] = IF key[p].type # "ssh-rsa" THEN key[p].type
                    ELSE IF flags[p] \in {2, 6} THEN "rsa-sha2-256"
                    ELSE IF flags[p] = 4 THEN "rsa-sha2-512"
                    ELSE key[p].type
\* both flags on an RSA key
C9_Witness ==
    \E p \in Clients : /\ pc[p] = "hwsign"
                       /\ flags[p] = 6
                       /\ key[p].type = "ssh-rsa"
\* a flag on an ECDSA key
C9_WitnessECDSA ==
    \E p \in Clients : /\ pc[p] = "hwsign"
                       /\ flags[p] = 4
                       /\ key[p].type # "ssh-rsa"

\* C10: Sign(key, data) enters exactly as SignWithFlags(key, data, 0) does,
\* and from there runs the same steps: it carries no flag, hands the key's
\* own type to the hardware and returns a signature of that type.
C10_SignIsSignWithNoFlags ==
    /\ [](\A p \in Clients :
            op[p] = "Sign"
            => /\ flags[p] = 0
               /\ pc[p] = "hwsign" => alg[p] = key[p].type
               /\ res[p].kind = "sigok" => res[p].why = key[p].type)
    /\ [][\A p \in Signing, k \in RequestKeys :
            Sign(p, k) => Enter(p, "Sign", k, 0)]_vars
\* Sign on an RSA key reached the hardware
C10_Witness ==
    \E p \in Clients : /\ op[p] = "Sign"
                       /\ key[p].type = "ssh-rsa"
                       /\ res[p].kind = "sigok"

\* the operations the agent does not implement
Unimplemented == {"Add", "Remove", "Lock", "Unlock"}
\* the session handle, the cached serial, the tokens' sessions and the
\* configured slots
AgentState == <<yk, serial, hState, hToken, slotConfiguration, mu>>

\* C11: Add, Remove, Lock and Unlock answer "operation unsupported" in every
\* agent state and for every argument, and leave the session handle, the
\* cached serial, the sessions and the slot configuration as they were.
C11_UnsupportedOperations ==
    /\ [][\A p \in Clients :
            (pc[p] = "idle" /\ op'[p] \in Unimplemented)
            => /\ res'[p] = Result("opunsupported", "none")
               /\ AgentState' = AgentState
         ]_vars
    /\ [](\A p \in Clients :
            op[p] \in Unimplemented
            => res[p] = Result("opunsupported", "none") /\ mu # p)
\* Lock is refused while a session is open and another request uses it
C11_Witness ==
    /\ op["c2"] = "Lock"
    /\ res["c2"].kind = "opunsupported"
    /\ yk # NoHandle
    /\ pc["c1"] = "slots"

\* C12: Extension answers with the dedicated "extension unsupported" value
\* for every extension type and content in every agent state, never with a
\* generic error or "operation unsupported".
C12_ExtensionUnsupported ==
    /\ [](\A p \in Clients :
            op[p] = "Extension"
            => res[p] = Result("extunsupported", "none") /\ mu # p)
    /\ [][\A p \in Clients :
            (pc[p] = "idle" /\ op'[p] = "Extension")
            => AgentState' = AgentState]_vars
\* an extension request is refused while a session is open
C12_Witness ==
    /\ op["c2"] = "Extension"
    /\ res["c2"].kind = "extunsupported"
    /\ yk # NoHandle

\* C13: RemoveAll is served by Close: it does not answer "operation
\* unsupported", and when it returns the session is torn down and none
\* remains.
C13_RemoveAllIsClose ==
    /\ [][\A p \in Clients :
            (pc[p] = "idle" /\ op'[p] = "RemoveAll")
            => pc'[p] = "closing" /\ mu'= p]_vars
    /\ [](\A p \in Clients :
            (op[p] = "RemoveAll" /\ pc[p] = "unlock")
            => /\ res[p].kind \in {"ok", "closeerr"}
               /\ yk = NoHandle
               /\ \A h \in Handles : hState[h] # "open")

\* C14: Close with no session open changes nothing, issues no hardware close
\* and returns nil; whenever Close has run no session remains, so a second
\* Close right after a first finds none and is such a call.
C14_CloseIdempotent ==
    /\ [][\A p \in Procs :
            (pc[p] = "closing" /\ pc'[p] # pc[p] /\ yk = NoHandle)
            => /\ res'[p] = Result("ok", "none")
               /\ conn'[p] = "none"
               /\ UNCHANGED <<yk, serial, hState, hToken>>
         ]_vars
    /\ [](\A p \in Procs :
            (op[p] \in {"Close", "RemoveAll"} /\ pc[p] = "unlock"
               /\ res[p].kind # "opunsupported")
            => yk = NoHandle /\ \A h \in Handles : hState[h] # "open")
\* Close has returned nil without a session to close
C14_Witness ==
    /\ pc[Hup] = "unlock"
    /\ res[Hup] = Result("ok", "none")
    /\ conn[Hup] = "none"
    /\ \E t \in Tokens : tok[t] = "ready"

\* p is inside a call, between a.mu.Lock() and the deferred Unlock
InFlight(p) ==
    mu = p /\ pc[p] \in {"ensure", "slots", "match", "hwsign", "release",
                         "unlock"}

\* C19 as stated: a hang-up signal that arrives during a sign call closes the
\* session during that call, and the call's hardware signature then fails.
C19_HangUpFailsSign ==
    [][\A p \in Clients :
         (IsSign(op[p]) /\ pc[p] = "hwsign" /\ Steps(p)
            /\ pc[Hup] = "called")
         => hState[yk] # "open" /\ res'[p].kind = "sigfail"
      ]_vars

\* C19: a hang-up signal that arrives while a sign call is in flight waits in
\* Close for the mutex: Close starts only once no call is in flight, so the
\* session stays as the call has it until the call returns, and the hardware
\* signature is not failed by the signal.
C19_HangUpWaitsForSign ==
    /\ [](pc[Hup] = "closing" => \A p \in Clients : ~InFlight(p))
    /\ [][\A p \in Clients :
            (IsSign(op[p]) /\ InFlight(p) /\ pc[Hup] = "called")
            => /\ pc'[Hup] = "called"
               /\ ~Steps(p) => UNCHANGED <<yk, serial>>
         ]_vars
\* a signature succeeds although the hang-up arrived before it
C19_Witness ==
    /\ pc[Hup] = "called"
    /\ IsSign(op["c1"])
    /\ res["c1"].kind = "sigok"
    /\ hState[yk] = "open"

\* the opportunistic release of src/main.go applies to the session
Releases == variant = "single" /\ darwin /\ TokenMajor(hToken[yk]) >= 5

\* C20: an operation that finds the session healthy reuses the same handle
\* with no close and no re-open, and an open session ends only by losing the
\* token, by a Close (hang-up, reset) or by the opportunistic release; in
\* particular it stays open when an operation returns.
C20_PersistentTransaction ==
    [][/\ \A p \in Clients :
            (pc[p] = "ensure" /\ Steps(p) /\ yk # NoHandle
               /\ hState[yk] = "open")
            => /\ pc'[p] = "slots"
               /\ UNCHANGED <<yk, serial, hState, hToken>>
       /\ (yk # NoHandle /\ hState[yk] = "open"
             /\ (yk' # yk \/ hState'[yk] # "open"))
          => \/ yk' = yk /\ hState'[yk] = "lost"
             \/ \E p \in Procs : pc[p] = "closing" /\ pc'[p] = "unlock"
             \/ \E p \in Clients : /\ pc[p] = "release" /\ pc'[p] = "unlock"
                                   /\ Releases
      ]_vars
\* a later operation goes on with the session an earlier one opened
C20_Witness ==
    \E p \in Clients : /\ pc[p] = "slots"
                       /\ conn[p] = "kept"
                       /\ hState[yk] = "open"

\* the goroutine g shows the notification (src/go.mod)
ShowsBy(g) == g.pc = "notify" /\ wd' = wd \ {g}
\* SignWithFlags shows the notification itself, before the hardware call
\* (src/main.go)
ShownAtArm == \E g \in wd' \ wd : g.pc = "shown"
\* a touch notification is shown in this step
Notified == ShownAtArm \/ \E g \in wd : ShowsBy(g)

\* C15: a touch notification is shown only for a sign call whose hardware
\* signature is still pending after the grace period (by the watchdog of that
\* call, whose context is live, once its timer has expired), and a call has
\* one live watchdog, which shows one notification and ends.
C15_NotificationAfterGrace ==
    /\ [](Cardinality({g \in wd : g.live}) <= 1)
    /\ [][Notified
           => \E g \in wd : /\ ShowsBy(g)
                            /\ g.live
                            /\ \E p \in Signing : pc[p] = "hwsign"
         ]_vars

\* C16: no touch notification is shown while the PIN prompt is open.
C16_NoNotificationDuringPrompt ==
    [][Notified => prompt \notin {"open", "openReset"}]_vars

\* C17: once SignWithFlags has returned (its context is cancelled), no
\* notification is shown by the watchdog of that call.
C17_NoNotificationAfterReturn ==
    [][\A g \in wd : ShowsBy(g) => g.live]_vars

\* C18: a watchdog reads and stops only the timer armed with it: the channel
\* its select waits on and the timer it stops on cancellation are never those
\* of a later call; and at most one watchdog has a live context.
C18_WatchdogScopedToCall ==
    /\ [](Cardinality({g \in wd : g.live}) <= 1
            /\ \A g \in wd : g.live => \E p \in Signing : pc[p] = "hwsign")
    /\ [][\A g \in wd :
            /\ (g.pc = "start" /\ g \notin wd'
                  /\ \E h \in wd' \ wd : h.pc = "select")
               => g.tm = touchNotification
            /\ (g.pc = "select" /\ wd' = wd \ {g})
               => g.tm = stoppedOnCancel(g)
         ]_vars

\* C21: a sign call makes at most one hardware signing attempt and asks for
\* the PIN at most once: the first outcome of the hardware call, a failure
\* after a wrong PIN included, ends the call and is its result.
C21_SingleSignAttempt ==
    /\ [](\A p \in Clients : pc[p] = "hwsign" => res[p] = NoResult)
    /\ [][\A p \in Clients :
            (pc[p] = "hwsign" /\ res'[p] # res[p])
            => /\ pc'[p] = AfterOp
               /\ res'[p].kind \in {"sigok", "sigfail"}
               /\ prompt = "wrong" => res'[p] = Result("sigfail", "pin")
         ]_vars
    /\ [][(prompt \in {"done", "wrong"})
           => (\/ prompt' = prompt /\ res' = res
               \/ /\ prompt' = "none"
                  /\ \E p \in Clients : pc[p] = "hwsign" /\ pc'[p] = AfterOp)
         ]_vars
\* a wrong PIN has failed the call
C21_Witness ==
    \E p \in Clients : pc[p] = AfterOp /\ res[p] = Result("sigfail", "pin")

\* the agent process has crashed
Crashed == \E p \in Procs : pc[p] = "dead"

\* C22: with the notification program missing or failing to start, the sign
\* call still returns the result of the hardware signature and the agent
\* process does not crash, neither when the notification is shown nor when
\* it is removed.
C22_NoNotifierNoFailure ==
    /\ [](~Crashed)
    /\ [][\A p \in Clients :
            (pc[p] = "hwsign" /\ Steps(p)
               /\ \E g \in wd : g.live /\ g.pc = "shownNil")
            => res'[p].kind \in {"sigok", "sigfail"}]_vars

\* the slot s of the session holds a certificate whose key is neither RSA
\* nor ECDSA
OtherKey(s) ==
    yk # NoHandle /\ hState[yk] = "open" /\ Cert(hToken[yk], s) = "other"

\* C23: a slot whose certificate holds a key that is neither RSA nor ECDSA
\* yields no listed key and no signer: reading its key fails with the
\* unsupported-key-type cause, recorded for that slot when signers are
\* produced.
C23_UnsupportedKeyType ==
    /\ [](\A p \in Clients : \A s \in got[p] :
            yk # NoHandle => Cert(hToken[yk], s) # "other")
    /\ [][\A p \in Clients, s \in Slots :
            (pc[p] = "slots" /\ s \in todo[p] /\ s \notin todo'[p]
               /\ OtherKey(s))
            => /\ s \notin got'[p]
               /\ op[p] # "List" => <<s, "badtype">> \in errs'[p]
         ]_vars
\* signers are returned for the other slots, the slot with the unsupported
\* key has its cause recorded
C23_Witness ==
    \E p \in Clients : /\ op[p] = "Signers"
                       /\ res[p].kind = "ok"
                       /\ <<"9c", "badtype">> \in errs[p]
                       /\ "9c" \notin got[p]

\* the first token in enumeration order that opens and answers the serial
\* query, NoToken when there is none
FirstAnswering ==
    LET ok == SelectSeq(Cards, LAMBDA t : tok[t] = "ready")
    IN IF ok = <<>> THEN NoToken ELSE Head(ok)

\* C24: with no serial configured, every discovery (the card enumeration
\* itself failing aside), a reconnect after a lost or closed session
\* included, ends with a session on the first token in enumeration order
\* that opens and answers the serial query, whichever token was connected
\* before, and fails only when there is no such token.
C24_FirstAvailableEachDiscovery ==
    [][\A p \in Clients :
         (pc[p] = "ensure" /\ Steps(p) /\ cardSerial = 0 /\ NeedsConnect
            /\ res'[p].why # "cards")
         => IF FirstAnswering = NoToken
            THEN pc'[p] = "unlock" /\ res'[p].kind = "unreachable"
            ELSE /\ pc'[p] = "slots"
                 /\ hState'[yk'] = "open"
                 /\ hToken'[yk'] = FirstAnswering
      ]_vars

\* C25: with a serial configured, the agent only ever holds a session on a
\* token with that serial; a discovery (the card enumeration itself failing
\* aside) connects to the attached token with that serial when it opens and
\* answers, and otherwise fails with "could not reach YubiKey".
C25_SpecificSerial ==
    /\ [](cardSerial # 0
            => \A h \in Handles :
                 hState[h] = "open" => TokenSerial(hToken[h]) = cardSerial)
    /\ [][\A p \in Clients :
            (pc[p] = "ensure" /\ Steps(p) /\ cardSerial # 0 /\ NeedsConnect
               /\ res'[p].why # "cards")
            => IF \E t \in Tokens : Usable(t)
               THEN /\ pc'[p] = "slots"
                    /\ hState'[yk'] = "open"
                    /\ TokenSerial(hToken'[yk']) = cardSerial
               ELSE /\ pc'[p] = "unlock"
                    /\ res'[p].kind = "unreachable"
                    /\ \A h \in Handles : hState'[h] # "open"
         ]_vars
\* the token with the configured serial is used although another token
\* comes first in the enumeration and would open
C25_Witness ==
    \E p \in Clients : /\ cardSerial = TokenSerial("t2")
                       /\ pc[p] = "slots"
                       /\ hState[yk] = "open"
                       /\ tok["t1"] = "ready"

\* C26: the serial of a session is queried during discovery only, as the
\* first command on the new handle, and never again: every handle the agent
\* has was queried once before anything else was sent on it, and no step of
\* a call on an established session or of the PIN prompt adds a serial query.
C26_SerialMemoized ==
    /\ [](\A h \in Handles : hState[h] # "free" => hq[h] = "memo")
    /\ [][\A h \in Handles :
            (hq'[h] # hq[h] /\ hq'[h] # "none")
            => /\ hq'[h] = "memo"
               /\ hState[h] = "free"
               /\ hState'[h] = "open"
               /\ \E p \in Clients : pc[p] = "ensure" /\ pc'[p] = "slots"
         ]_vars
\* the PIN prompt is open on an established session, its serial memoized
C26_Witness ==
    /\ prompt \in {"open", "openReset"}
    /\ conn["c1"] = "none"
    /\ yk # NoHandle
    /\ hq[yk] = "memo"
    /\ hState[yk] = "open"

\* C27: outside a discovery in progress the agent has at most one open
\* handle, and every handle it opened and has not closed is the current
\* session: the handles a discovery opened and rejected (no answer to the
\* serial query, another serial) are closed when it ends.
C27_OneOpenHandle ==
    /\ Cardinality({h \in Handles : hState[h] = "open"}) <= 1
    /\ \A h \in Handles : hState[h] \in {"open", "lost"} => h = yk
\* a discovery has rejected the token that opens but does not answer the
\* serial query, and no handle is left open
C27_Witness ==
    \E p \in Clients : /\ pc[p] = "unlock"
                       /\ res[p] = Result("unreachable", "notfound")
                       /\ tok["t2"] = "mute"
                       /\ \A h \in Handles : hState[h] # "open"

\* a watchdog goroutine is about to show the notification
Notifying == \E g \in wd : g.pc = "notify"

\* C28: when the PIN prompt has stopped an armed watchdog, the prompt
\* returns and the timer runs again for a full grace period; if the PIN was
\* right and the hardware call then stays pending, a notification is
\* produced.
C28_RearmedAfterPrompt ==
    /\ [][prompt = "openReset" /\ prompt' # prompt
           => tState'[touchNotification] = "running"]_vars
    /\ (prompt = "openReset")
         ~> \/ Notifying
            \/ prompt = "wrong"
            \/ \A p \in Signing : pc[p] # "hwsign"

\* C29: in src/main.go every List, Signers and sign call that obtained a
\* session runs the release step before it returns, whatever its result; on
\* macOS with a token of major version 5 or later the step closes the
\* session, so that no such session exists while no call is in flight, and
\* otherwise it changes nothing.
C29_OpportunisticRelease ==
    /\ [](\A h \in Handles :
            (variant = "single" /\ darwin /\ hState[h] \in {"open", "lost"}
               /\ TokenMajor(hToken[h]) >= 5)
            => mu \in Clients)
    /\ [][\A p \in Clients :
            /\ (variant = "single" /\ pc[p] \in {"slots", "match", "hwsign"}
                  /\ pc'[p] # pc[p])
               => pc'[p] \in {"slots", "match", "hwsign", "release"}
            /\ (pc[p] = "release" /\ Steps(p))
               => IF Releases
                  THEN /\ yk' = NoHandle
                       /\ \A h \in Handles : hState'[h] = "free"
                  ELSE UNCHANGED <<yk, hState, hToken>>
         ]_vars
\* a sign call whose hardware signature failed has released the session
C29_Witness ==
    \E p \in Clients : /\ darwin
                       /\ pc[p] = "unlock"
                       /\ res[p].kind = "sigfail"
                       /\ yk = NoHandle
                       /\ tok["t1"] = "ready"

\* C30: signers are built anew, from the current session, in every call and
\* dropped when it returns; when the loop over the signers, the PIN prompt
\* or the hardware signature runs, the session the signers were built on is
\* the current one and has not been closed, released or replaced.
C30_SignerWithinSession ==
    /\ [](\A p \in Clients :
            /\ pc[p] \in {"idle", "ensure"} => sess[p] = NoHandle
            /\ pc[p] \in {"match", "hwsign"}
               => /\ sess[p] = yk
                  /\ hState[sess[p]] \in {"open", "lost"})
    /\ [][\A p \in Clients :
            (pc[p] \in {"slots", "match", "hwsign"}
               /\ pc'[p] \in {"slots", "match", "hwsign"})
            => /\ yk' = yk
               /\ hState'[yk] \in {"open", "lost"}
               /\ sess'[p] \in {NoHandle, yk}
               /\ (Steps(p) /\ op[p] # "List") => sess'[p] = yk
         ]_vars
\* a signature is asked through a signer built on the second session, after
\* the first was replaced
C30_Witness ==
    \E p \in Clients : /\ pc[p] = "hwsign"
                       /\ sess[p] = yk
                       /\ yk = 2
                       /\ hState[yk] = "open"

\* the catalog a -slot value must leave, and whether Set must refuse it
C31_Refused == {<<"bogus">>, <<"CardAuthentication", "sometimes">>,
                <<"authentication", "">>, <<"bogus", "sometimes">>}
C31_Entry(slot) ==
    CASE slot = <<"Authentication">> -> <<"9a", "unset">>
      [] slot = <<"signature", "ONCE">> -> <<"9c", "once">>
      [] slot = <<"KeyManagement", "never">> -> <<"9d", "never">>
      [] slot = <<"Authentication", "always", "x">> -> <<"9a", "always">>

\* C31: after any sequence of slot-configuration Set calls the catalog maps
\* each of the four known slots at most once to a policy in {unset, once,
\* never, always}; a Set with an unknown slot name or an unknown policy
\* returns an error and leaves the catalog unchanged; and no agent operation
\* (List, Signers, SignWithFlags, Close) modifies the catalog.
C31_CatalogWellFormed ==
    [][/\ DOMAIN slotConfiguration' \subseteq Slots
       /\ \A s \in DOMAIN slotConfiguration' :
            slotConfiguration'[s] \in PINPolicies
       /\ \A slot \in SlotFlags :
            Set(slot) =>
              IF slot \in C31_Refused
              THEN /\ slotConfiguration' = slotConfiguration
                   /\ res'[Hup].kind = "flagerr"
              ELSE /\ res'[Hup].kind # "flagerr"
                   /\ DOMAIN slotConfiguration'
                        = DOMAIN slotConfiguration \cup {C31_Entry(slot)[1]}
                   /\ slotConfiguration'[C31_Entry(slot)[1]]
                        = C31_Entry(slot)[2]
                   /\ \A s \in DOMAIN slotConfiguration \ {C31_Entry(slot)[1]} :
                        slotConfiguration'[s] = slotConfiguration[s]
       /\ (pc[Hup] # "flags") => slotConfiguration' = slotConfiguration]_vars
\* a flag with an unknown policy was refused after three slots were
\* configured, one of them twice
C31_Witness ==
    /\ res[Hup] = Result("flagerr", "policy")
    /\ DOMAIN slotConfiguration = {"9a", "9c", "9d"}
    /\ slotConfiguration["9a"] = "always"

\* C32: a failing hardware close is never fatal to the lifecycle: when
\* closing the session returns an error in Close, in the reconnect path of
\* ensureYK or in the opportunistic release, the agent still drops the handle
\* and the next operation performs a fresh discovery. yk.Close() can return
\* an error when the session it closes is no longer open.
C32_CloseErrorNotFatal ==
    [][\A p \in Procs :
         /\ (pc[p] = "closing" /\ Steps(p) /\ res'[p].kind = "closeerr")
            => yk' = NoHandle
         /\ (pc[p] = "release" /\ Steps(p) /\ darwin
               /\ TokenMajor(hToken[yk]) >= 5 /\ hState[yk] # "open")
            => yk' = NoHandle
         /\ (pc[p] = "ensure" /\ Steps(p) /\ yk # NoHandle
               /\ hState[yk] # "open")
            => yk' # yk]_vars

\* C33: every token handle is closed at most once and is never probed or
\* closed again after it was closed: the agent keeps no reference to a closed
\* handle (in particular not after ensureYK closed a stale session and the
\* reconnect failed), so the probe of ensureYK, the close of its reconnect
\* path, Close and the opportunistic release never act on a closed handle.
C33_ClosedAtMostOnce ==
    [][/\ yk' # NoHandle => hState'[yk'] # "closed"
       /\ \A p \in Procs :
            (pc[p] \in {"ensure", "closing", "release"} /\ Steps(p)
               /\ yk # NoHandle)
            => hState[yk] # "closed"]_vars

\* C34: every operation that takes the agent lock (List, Signers,
\* SignWithFlags, Close) releases it on every return path, including
\* discovery failure, signer failure, no matching key and hardware error; so
\* whenever no operation is in flight the lock is free, only an operation in
\* flight holds it, and a lock that is held is released.
C34_LockAlwaysReleased ==
    /\ []((\A p \in Procs : pc[p] \in {"idle", "recv", "called"})
            => mu = NoProc)
    /\ [](mu # NoProc => pc[mu] \notin {"idle", "recv", "called"})
    /\ (mu # NoProc) ~> (mu = NoProc)
\* a sign request is about to return a hardware error while holding the lock
\* and a Close is waiting for it
C34_Witness ==
    /\ pc["c1"] = "unlock" /\ mu = "c1"
    /\ res["c1"] = Result("sigfail", "hardware")
    /\ pc[Hup] = "called"

\* C35: no hang-up signal is lost: every SIGHUP delivered to the process,
\* including one delivered while the handler goroutine is still inside a
\* previous Close (possibly blocked waiting for the agent lock), is followed
\* by a Close call that begins after that signal's delivery.
C35_NoHangUpLost == sighup ~> ~sighup

\* C36: whenever the agent holds a session, the cached serial equals the
\* serial of the token of that session: the serial shown in List comments and
\* passed to the PIN prompt is never the serial of a previously connected,
\* different token.
C36_SerialOfSession ==
    yk # NoHandle => serial = TokenSerial(hToken[yk])

\* C37: in the keychain-backed PIN prompt, a stored PIN is returned without
\* user interaction only when at least 3 retries remain; with fewer than 3
\* remaining the user is always prompted. Hence over any sequence of signing
\* attempts, automatic submissions of a stored wrong PIN never bring the
\* retry counter below 2 and can never lock the PIN.
C37_StoredPINKeepsTwoTries ==
    [][/\ (attempt = NoAttempt /\ attempt'.by = "keychain") => retries >= 3
       /\ (attempt = NoAttempt /\ attempt' # NoAttempt /\ retries < 3)
          => attempt'.by \in {"user", "error"}
       /\ (attempt.by = "keychain" /\ attempt' = NoAttempt) => retries' >= 2
       /\ (retries > 0 /\ retries' = 0) => attempt.by = "user"]_vars
\* a wrong PIN is stored and getPIN has returned it from the keychain, with
\* 3 tries left on a token set up with 5
C37_Witness ==
    /\ attempt = [pin |-> "wrong", by |-> "keychain"]
    /\ retries = 3
    /\ pinRetries = 5
====
